---------------------------- MODULE Spec2Model ----------------------------
(***************************************************************************)
(* Model of engelsjk/svgg (src/util.go): the SVG path-data parser that     *)
(* draws on a fogleman/gg context.                                         *)
(*                                                                         *)
(* Strings are sequences of one-character strings.  Go slices and indices  *)
(* are 0-based; the operators below keep the source's 0-based indices and  *)
(* translate at the point of access (At, Slice).                           *)
(*                                                                         *)
(* float64 values are modelled as exact decimals [m |-> mantissa,          *)
(* e |-> exponent] meaning m * 10^e, kept in normal form.  The inputs of   *)
(* the model are integers and halves of small magnitude, for which float64 *)
(* parsing and addition are exact, so the decimal arithmetic agrees with   *)
(* the float64 arithmetic of the program on them.                          *)
(***************************************************************************)
EXTENDS Integers, Sequences, FiniteSets, TLC

---------------------------------------------------------------------------
(* Characters and strings *)

Digits == {"0", "1", "2", "3", "4", "5", "6", "7", "8", "9"}

DigitChars == <<"0", "1", "2", "3", "4", "5", "6", "7", "8", "9">>

DigitVal(c) == (CHOOSE d \in 1..10 : DigitChars[d] = c) - 1

UpperLetters ==
  {"A", "B", "C", "D", "E", "F", "G", "H", "I", "J", "K", "L", "M",
   "N", "O", "P", "Q", "R", "S", "T", "U", "V", "W", "X", "Y", "Z"}

LowerLetters ==
  {"a", "b", "c", "d", "e", "f", "g", "h", "i", "j", "k", "l", "m",
   "n", "o", "p", "q", "r", "s", "t", "u", "v", "w", "x", "y", "z"}

\* unicode.IsLetter, on the ASCII characters the model's inputs are made of
IsLetter(r) == r \in UpperLetters \cup LowerLetters

\* unicode.IsNumber, on the ASCII characters the model's inputs are made of
IsNumber(r) == r \in Digits

\* s[i] of the source (0-based)
At(s, i) == s[i + 1]

\* s[a:b] of the source (0-based, b exclusive)
Slice(s, a, b) == SubSeq(s, a + 1, b)

\* strings.HasSuffix
HasSuffix(s, suf) ==
  /\ Len(s) >= Len(suf)
  /\ Slice(s, Len(s) - Len(suf), Len(s)) = suf

\* strings.TrimSuffix
TrimSuffix(s, suf) ==
  IF HasSuffix(s, suf) THEN Slice(s, 0, Len(s) - Len(suf)) ELSE s

---------------------------------------------------------------------------
(* float64 values as exact decimals *)

RECURSIVE Pow10(_)
Pow10(n) == IF n = 0 THEN 1 ELSE 10 * Pow10(n - 1)

RECURSIVE Norm(_, _)
Norm(m, e) ==
  IF m = 0 THEN [m |-> 0, e |-> 0]
  ELSE IF m % 10 = 0 THEN Norm(m \div 10, e + 1)
  ELSE [m |-> m, e |-> e]

\* the float64 with the integer value n
D(n) == Norm(n, 0)

Min(a, b) == IF a < b THEN a ELSE b

\* float64 addition (the += of valsToAbs and pointsToAbs)
Add(x, y) ==
  LET e == Min(x.e, y.e)
  IN  Norm(x.m * Pow10(x.e - e) + y.m * Pow10(y.e - e), e)

\* float64 subtraction and doubling, as used by reflect
Sub(x, y) == Add(x, [m |-> 0 - y.m, e |-> y.e])

reflect(px, py, rx, ry) ==
  <<Sub(Add(px, px), rx), Sub(Add(py, py), ry)>>

---------------------------------------------------------------------------
(* Number conversion *)

unitSuffixes == << <<"c", "m">>, <<"m", "m">>, <<"p", "x">>, <<"p", "t">> >>

RECURSIVE TrimAll(_, _)
TrimAll(b, j) ==
  IF j > Len(unitSuffixes) THEN b
  ELSE TrimAll(TrimSuffix(b, unitSuffixes[j]), j + 1)

trimSuffixes(a) ==
  IF a = <<>> \/ At(a, Len(a) - 1) \in Digits THEN a ELSE TrimAll(a, 1)

\* strconv.ParseFloat(s, 64) for decimal floating-point text:
\*   [sign] digits [ "." [digits] ] [ ("e"|"E") [sign] digits ]
\* with at least one mantissa digit; anything else is a syntax error.
\* (The words inf/nan and hexadecimal text need letters that GetPoints never
\* passes on: it splits at every letter other than 'e'.)

\* the mantissa loop: digits with at most one decimal point, from index i;
\* nd counts the digits read, nf those after the decimal point
RECURSIVE readMantissa(_, _, _, _, _, _)
readMantissa(s, i, sawdot, nd, nf, mantissa) ==
  IF i < Len(s) /\ At(s, i) = "." /\ ~sawdot
  THEN readMantissa(s, i + 1, TRUE, nd, nf, mantissa)
  ELSE IF i < Len(s) /\ At(s, i) \in Digits
  THEN readMantissa(s, i + 1, sawdot, nd + 1,
                    IF sawdot THEN nf + 1 ELSE nf,
                    10 * mantissa + DigitVal(At(s, i)))
  ELSE [i |-> i, nd |-> nd, nf |-> nf, mantissa |-> mantissa]

\* the digits of the exponent, from index i
RECURSIVE readExponent(_, _, _, _)
readExponent(s, i, nd, e) ==
  IF i < Len(s) /\ At(s, i) \in Digits
  THEN readExponent(s, i + 1, nd + 1, 10 * e + DigitVal(At(s, i)))
  ELSE [i |-> i, nd |-> nd, e |-> e]

HasSign(s, i) == i < Len(s) /\ At(s, i) \in {"+", "-"}

IsNeg(s, i) == i < Len(s) /\ At(s, i) = "-"

SyntaxError == [f |-> D(0), err |-> "NumError"]

Float(s, mantissa, exp10) ==
  [f |-> Norm(IF IsNeg(s, 0) THEN 0 - mantissa ELSE mantissa, exp10),
   err |-> "nil"]

\* after the exponent digits x, read from index m.i + 1
parseFloatEnd(s, m, x) ==
  IF x.nd = 0 \/ x.i # Len(s) THEN SyntaxError
  ELSE Float(s, m.mantissa,
             (IF IsNeg(s, m.i + 1) THEN 0 - x.e ELSE x.e) - m.nf)

\* after the mantissa m
parseFloatExp(s, m) ==
  IF m.nd = 0 THEN SyntaxError
  ELSE IF m.i < Len(s) /\ At(s, m.i) \in {"e", "E"}
  THEN parseFloatEnd(s, m,
         readExponent(s, IF HasSign(s, m.i + 1) THEN m.i + 2 ELSE m.i + 1,
                      0, 0))
  ELSE IF m.i = Len(s) THEN Float(s, m.mantissa, 0 - m.nf)
  ELSE SyntaxError

strconvParseFloat(s) ==
  parseFloatExp(s, readMantissa(s, IF HasSign(s, 0) THEN 1 ELSE 0,
                                FALSE, 0, 0, 0))

parseFloat(s) == strconvParseFloat(trimSuffixes(s))

---------------------------------------------------------------------------
(* Tokenizer *)

\* ReadFloat and GetPoints return the points slice and the error

\* p.points = append(p.points, f), or the error of parseFloat
appendFloat(points, r) ==
  IF r.err # "nil" THEN [points |-> points, err |-> r.err]
  ELSE [points |-> Append(points, r.f), err |-> "nil"]

\* the loop of ReadFloat from index i on, and the statements after it
RECURSIVE ReadFloatLoop(_, _, _, _, _)
RECURSIVE ReadFloatSplit(_, _, _)
ReadFloatLoop(numStr, i, last, isFirst, points) ==
  IF i >= Len(numStr)
  THEN appendFloat(points, parseFloat(Slice(numStr, last, Len(numStr))))
  ELSE IF At(numStr, i) = "."
  THEN IF isFirst
       THEN ReadFloatLoop(numStr, i + 1, last, FALSE, points)
       ELSE ReadFloatSplit(numStr, i,
              appendFloat(points, parseFloat(Slice(numStr, last, i))))
  ELSE ReadFloatLoop(numStr, i + 1, last, isFirst, points)

\* the split with last = i + 1, which loses the decimal point of the next
\* number (a variant that C10 must tell apart)
ReadFloatSplit_SkipDot(numStr, i, a) ==
  IF a.err # "nil" THEN a
  ELSE ReadFloatLoop(numStr, i + 1, i + 1, FALSE, a.points)

\* a decimal point after the first one, at index i: a is the outcome of
\* reading numStr[last:i]; the loop goes on with last = i
ReadFloatSplit(numStr, i, a) ==
  IF a.err # "nil" THEN a
  ELSE ReadFloatLoop(numStr, i + 1, i, FALSE, a.points)

ReadFloat(numStr, points) == ReadFloatLoop(numStr, 0, 0, TRUE, points)

\* the boundary condition without the test for a '-' after 'e' (a variant
\* that C11 must tell apart)
IsBoundary_SignEnds(r, lr) ==
  /\ ~IsNumber(r)
  /\ r # "."
  /\ r # "e"

\* the condition under which the rune r ends a number in GetPoints
IsBoundary(r, lr) ==
  /\ ~IsNumber(r)
  /\ r # "."
  /\ ~(r = "-" /\ lr = "e")
  /\ r # "e"

\* the loop of GetPoints from index i on, and the statements after it
RECURSIVE GetPointsLoop(_, _, _, _, _)
RECURSIVE GetPointsBoundary(_, _, _)
GetPointsLoop(dataPoints, i, lastIndex, lr, points) ==
  IF i >= Len(dataPoints)
  THEN IF lastIndex # -1 /\ lastIndex # Len(dataPoints)
       THEN ReadFloat(Slice(dataPoints, lastIndex, Len(dataPoints)), points)
       ELSE [points |-> points, err |-> "nil"]
  ELSE IF IsBoundary(At(dataPoints, i), lr)
  THEN GetPointsBoundary(dataPoints, i,
         IF lastIndex # -1
         THEN ReadFloat(Slice(dataPoints, lastIndex, i), points)
         ELSE [points |-> points, err |-> "nil"])
  ELSE GetPointsLoop(dataPoints, i + 1,
                     IF lastIndex = -1 THEN i ELSE lastIndex,
                     At(dataPoints, i), points)

\* a boundary rune at index i: rf is the outcome of reading the number that
\* ends there (if any); a '-' starts the next number
GetPointsBoundary(dataPoints, i, rf) ==
  IF rf.err # "nil" THEN rf
  ELSE GetPointsLoop(dataPoints, i + 1,
                     IF At(dataPoints, i) = "-" THEN i ELSE -1,
                     At(dataPoints, i), rf.points)

\* p.points = p.points[0:0], then the loop
GetPoints(dataPoints) == GetPointsLoop(dataPoints, 0, -1, " ", <<>>)

---------------------------------------------------------------------------
(* Parser state and the command dispatcher *)

IgnoreErrorMode == 0
WarnErrorMode == 1
StrictErrorMode == 2

ErrorModes == {IgnoreErrorMode, WarnErrorMode, StrictErrorMode}

\* the Parser struct after NewParser: every field has its zero value
\* (points nil, lastKey 0 written "NUL" here, ErrorMode IgnoreErrorMode)
NewParser ==
  [placeX |-> D(0), placeY |-> D(0),
   curX |-> D(0), curY |-> D(0),
   cntlPtX |-> D(0), cntlPtY |-> D(0),
   pathStartX |-> D(0), pathStartY |-> D(0),
   points |-> <<>>,
   lastKey |-> "NUL",
   ErrorMode |-> IgnoreErrorMode,
   inPath |-> FALSE]

\* the calls on the gg context
MoveTo(x, y) == <<"MoveTo", x, y>>
LineTo(x, y) == <<"LineTo", x, y>>
ClosePath == <<"ClosePath">>

RECURSIVE valsToAbsLoop(_, _, _)
valsToAbsLoop(points, i, last) ==
  IF i >= Len(points) THEN points
  ELSE valsToAbsLoop([points EXCEPT ![i + 1] = Add(last, At(points, i))],
                     i + 1, Add(last, At(points, i)))

valsToAbs(points, last) == valsToAbsLoop(points, 0, last)

\* the inner loop of pointsToAbs: add (lastX, lastY) to the pairs of the
\* group that starts at j
RECURSIVE pointsToAbsInner(_, _, _, _, _, _)
pointsToAbsInner(points, sz, j, i, lastX, lastY) ==
  IF i >= sz THEN points
  ELSE pointsToAbsInner(
         [points EXCEPT ![i + j + 1] = Add(At(points, i + j), lastX),
                        ![i + 1 + j + 1] = Add(At(points, i + 1 + j), lastY)],
         sz, j, i + 2, lastX, lastY)

RECURSIVE pointsToAbsLoop(_, _, _, _, _)
RECURSIVE pointsToAbsNext(_, _, _)
pointsToAbsLoop(points, sz, j, lastX, lastY) ==
  IF j >= Len(points) THEN points
  ELSE pointsToAbsNext(pointsToAbsInner(points, sz, j, 0, lastX, lastY),
                       sz, j)

\* the end of the outer loop's body: lastX, lastY = the group's last pair
pointsToAbsNext(points, sz, j) ==
  pointsToAbsLoop(points, sz, j + sz,
                  At(points, (j + sz) - 2), At(points, (j + sz) - 1))

\* pointsToAbs with every pair taken from the cursor instead of from the pair
\* before it (a variant that C5 must tell apart)
pointsToAbs_NoChain(p, sz) ==
  [p EXCEPT !.points =
     [j \in 1..Len(p.points) |->
        Add(p.points[j], IF j % 2 = 1 THEN p.placeX ELSE p.placeY)]]

pointsToAbs(p, sz) ==
  [p EXCEPT !.points = pointsToAbsLoop(p.points, sz, 0, p.placeX, p.placeY)]

\* hasSetsOrMore returns a bool and, for rel, rewrites p.points
hasSetsOrMore(p, sz, rel) ==
  IF ~(Len(p.points) >= sz /\ Len(p.points) % sz = 0)
  THEN [ok |-> FALSE, p |-> p]
  ELSE [ok |-> TRUE, p |-> IF rel THEN pointsToAbs(p, sz) ELSE p]

reflectControlQuad(p) ==
  IF p.lastKey \in {"q", "Q", "T", "t"}
  THEN LET r == reflect(p.placeX, p.placeY, p.cntlPtX, p.cntlPtY)
       IN  [p EXCEPT !.cntlPtX = r[1], !.cntlPtY = r[2]]
  ELSE [p EXCEPT !.cntlPtX = p.placeX, !.cntlPtY = p.placeY]

reflectControlCube(p) ==
  IF p.lastKey \in {"c", "C", "s", "S"}
  THEN LET r == reflect(p.placeX, p.placeY, p.cntlPtX, p.cntlPtY)
       IN  [p EXCEPT !.cntlPtX = r[1], !.cntlPtY = r[2]]
  ELSE [p EXCEPT !.cntlPtX = p.placeX, !.cntlPtY = p.placeY]

\* the result of addSeg: the parser afterwards, the calls made on the gg
\* context in order, and the returned error
Result(p, calls, err) == [p |-> p, calls |-> calls, err |-> err]

\* the statement after the switch: p.lastKey = k; return nil
addSegEnd(p, k, calls) == Result([p EXCEPT !.lastKey = k], calls, "nil")

\* case 'z', 'Z' without the reset of the cursor to the path-start (a variant
\* that C4 must tell apart)
addSegZ_NoReset(p, k) ==
  IF Len(p.points) # 0 THEN Result(p, <<>>, "errParamMismatch")
  ELSE addSegEnd([p EXCEPT !.inPath = FALSE], k, <<>>)

\* case 'z', 'Z' without the test of p.inPath (a variant that C18 must tell
\* apart)
addSegZ_AlwaysReset(p, k) ==
  IF Len(p.points) # 0 THEN Result(p, <<>>, "errParamMismatch")
  ELSE addSegEnd([p EXCEPT !.placeX = p.pathStartX,
                           !.placeY = p.pathStartY,
                           !.inPath = FALSE], k, <<>>)

\* case 'z', 'Z' with the p.dc.ClosePath() call of an open subpath made (a
\* variant that C19 must tell apart)
addSegZ_Emits(p, k) ==
  IF Len(p.points) # 0 THEN Result(p, <<>>, "errParamMismatch")
  ELSE IF p.inPath
  THEN addSegEnd([p EXCEPT !.placeX = p.pathStartX,
                           !.placeY = p.pathStartY,
                           !.inPath = FALSE], k, <<ClosePath>>)
  ELSE addSegEnd(p, k, <<>>)

\* case 'z', 'Z'
addSegZ(p, k) ==
  IF Len(p.points) # 0 THEN Result(p, <<>>, "errParamMismatch")
  ELSE IF p.inPath
  THEN addSegEnd([p EXCEPT !.placeX = p.pathStartX,
                           !.placeY = p.pathStartY,
                           !.inPath = FALSE], k, <<>>)
  ELSE addSegEnd(p, k, <<>>)

\* the LineTo loop with the bound i < l-3, which drops the last pair (a
\* variant that C2 must tell apart)
RECURSIVE addSegMLines_Short(_, _, _)
addSegMLines_Short(points, i, l) ==
  IF i < l - 3
  THEN <<LineTo(At(points, i), At(points, i + 1))>>
         \o addSegMLines_Short(points, i + 2, l)
  ELSE <<>>

\* the LineTo loop of case 'M': for i := 2; i < l-1; i += 2
RECURSIVE addSegMLines(_, _, _)
addSegMLines(points, i, l) ==
  IF i < l - 1
  THEN <<LineTo(At(points, i), At(points, i + 1))>>
         \o addSegMLines(points, i + 2, l)
  ELSE <<>>

\* case 'm' (rel) and 'M', after h = p.hasSetsOrMore(2, rel)
addSegMove(h, k, l) ==
  IF ~h.ok THEN Result(h.p, <<>>, "errParamMismatch")
  ELSE addSegEnd(
         [h.p EXCEPT !.pathStartX = At(h.p.points, 0),
                     !.pathStartY = At(h.p.points, 1),
                     !.inPath = TRUE,
                     !.placeX = At(h.p.points, l - 2),
                     !.placeY = At(h.p.points, l - 1)],
         k,
         <<MoveTo(At(h.p.points, 0), At(h.p.points, 1))>>
           \o addSegMLines(h.p.points, 2, l))

\* case 'm' (rel) and 'M'
addSegM(p, k, l, rel) == addSegMove(hasSetsOrMore(p, 2, rel), k, l)

\* the unimplemented cases treated as default treats an unknown letter:
\* skipped unless the mode is Strict (a variant that C17 must tell apart)
addSegNotImplemented_Skips(p, k) ==
  IF p.ErrorMode = StrictErrorMode
  THEN Result(p, <<>>, "errNotImplemented")
  ELSE addSegEnd(p, k, <<>>)

\* the cases whose body is return errNotImplemented; 'v' and 'h' first
\* rewrite p.points with valsToAbs
addSegNotImplemented(p, k) ==
  Result(IF k = "v"
         THEN [p EXCEPT !.points = valsToAbs(p.points, p.placeY)]
         ELSE IF k = "h"
         THEN [p EXCEPT !.points = valsToAbs(p.points, p.placeX)]
         ELSE p,
         <<>>, "errNotImplemented")

\* default with the test p.ErrorMode != IgnoreErrorMode, which makes Warn fail
\* too (a variant that C7 must tell apart)
addSegDefault_WarnFails(p, k) ==
  IF p.ErrorMode # IgnoreErrorMode
  THEN Result(p, <<>>, "errCommandUnknown")
  ELSE addSegEnd(p, k, <<>>)

\* default: (the log.Println of WarnErrorMode is not part of the state)
addSegDefault(p, k) ==
  IF p.ErrorMode = StrictErrorMode
  THEN Result(p, <<>>, "errCommandUnknown")
  ELSE addSegEnd(p, k, <<>>)

NotImplementedKeys ==
  {"l", "L", "v", "V", "h", "H", "q", "Q", "t", "T", "c", "C", "s", "S",
   "a", "A"}

\* the switch of addSeg, with p.points read and l = len(p.points)
addSegSwitch(p, k, l) ==
  IF k \in {"z", "Z"} THEN addSegZ(p, k)
  ELSE IF k \in {"m", "M"} THEN addSegM(p, k, l, k = "m")
  ELSE IF k \in NotImplementedKeys THEN addSegNotImplemented(p, k)
  ELSE addSegDefault(p, k)

\* addSeg after gp = p.GetPoints(segString[1:])
addSegPoints(p, k, gp) ==
  IF gp.err # "nil"
  THEN Result([p EXCEPT !.points = gp.points], <<>>, gp.err)
  ELSE addSegSwitch([p EXCEPT !.points = gp.points], k, Len(gp.points))

addSeg(p, segString) ==
  addSegPoints(p, At(segString, 0),
               GetPoints(Slice(segString, 1, Len(segString))))

\* Parser.init without the reset of the cursor (a variant that C16 must tell
\* apart)
init_KeepCursor(p) ==
  [p EXCEPT !.points = <<>>,
            !.lastKey = " ",
            !.inPath = FALSE]

\* Parser.init
init(p) ==
  [p EXCEPT !.placeX = D(0), !.placeY = D(0),
            !.points = <<>>,
            !.lastKey = " ",
            !.inPath = FALSE]

---------------------------------------------------------------------------
(* Inputs *)

\* longest path string assembled from Segs, in segments
MaxSegs == 2

\* largest number of numeric arguments of the one-command path strings
MaxArgs == 7

RECURSIVE Concat(_)
Concat(ss) == IF ss = <<>> THEN <<>> ELSE Head(ss) \o Concat(Tail(ss))

\* "M3 4 5 6"
SegMAbs == <<"M", "3", " ", "4", " ", "5", " ", "6">>
\* "m1 2-1.5.5"
SegMRel == <<"m", "1", " ", "2", "-", "1", ".", "5", ".", "5">>
\* "Z"
SegZ == <<"Z">>
\* "z1"
SegZArg == <<"z", "1">>
\* "X5 5"
SegX == <<"X", "5", " ", "5">>
\* "L1 2"
SegL == <<"L", "1", " ", "2">>
\* "M1 2 3"
SegMOdd == <<"M", "1", " ", "2", " ", "3">>
\* "M1 -"
SegMBad == <<"M", "1", " ", "-">>

Segs == {SegMAbs, SegMRel, SegZ, SegZArg, SegX, SegL, SegMOdd, SegMBad}

\* " 7" repeated n times
RECURSIVE Args(_)
Args(n) == IF n = 0 THEN <<>> ELSE <<" ", "7">> \o Args(n - 1)

CommandKeys ==
  {"M", "m", "L", "l", "H", "h", "V", "v", "C", "c", "S", "s", "Q", "q",
   "T", "t", "A", "a", "Z", "z"}

\* one command of every recognized letter, and of the unknown letter X, with
\* 0..MaxArgs arguments, at the start of a path and after a MoveTo
ArgPaths ==
  {pre \o <<k>> \o Args(n) :
     pre \in {<<>>, SegMAbs}, k \in CommandKeys \cup {"X"}, n \in 0..MaxArgs}

\* "M75 0, 0 200, 150 200 Z"
PathReadme ==
  <<"M", "7", "5", " ", "0", ",", " ", "0", " ", "2", "0", "0", ",", " ",
    "1", "5", "0", " ", "2", "0", "0", " ", "Z">>

\* "M0 0 1 1 Z M5 5 6 6"
PathTwoSubpaths ==
  <<"M", "0", " ", "0", " ", "1", " ", "1", " ", "Z", " ",
    "M", "5", " ", "5", " ", "6", " ", "6">>

\* "m10 10"
PathRelFirst == <<"m", "1", "0", " ", "1", "0">>

\* "M1 2 X5 5"
PathUnknown == <<"M", "1", " ", "2", " ", "X", "5", " ", "5">>

\* "M1.5.5"
PathDots == <<"M", "1", ".", "5", ".", "5">>

\* "M3 4 5 6Zm1 2-1.5.5"
PathCloseRel == SegMAbs \o SegZ \o SegMRel

\* "M3 4 5 6M1 2 3m1 2-1.5.5"
PathErrMid == SegMAbs \o SegMOdd \o SegMRel

\* "M1e-5 2"
PathExpNeg == <<"M", "1", "e", "-", "5", " ", "2">>

\* "M1E2 3"
PathExpUpper == <<"M", "1", "E", "2", " ", "3">>

\* "M1e+2 3"
PathExpPlus == <<"M", "1", "e", "+", "2", " ", "3">>

\* "M3 4 5 6ZZ"
PathCloseTwice == SegMAbs \o SegZ \o SegZ

\* "10 20"
PathNoLetter == <<"1", "0", " ", "2", "0">>

\* ".."
PathOnlyDots == <<".", ".">>

\* "10 20M3 4 5 6Z"
PathJunkPrefix == PathNoLetter \o SegMAbs \o SegZ

\* most decimal points after the first one in a digit run
MaxDots == 3

DigitGroups == {<<"5">>, <<"2", "5">>}

\* ".d" for every d of a sequence ds of digit groups
RECURSIVE DotJoin(_)
DotJoin(ds) == IF ds = <<>> THEN <<>> ELSE <<".">> \o Head(ds) \o DotJoin(Tail(ds))

\* "Md0.d1.d2...dk": one MoveTo whose argument text is a single digit run
\* with k decimal points
DotPaths ==
  {<<"M">> \o d0 \o DotJoin(ds) :
     d0 \in {<<"1">>, <<"2", "0">>},
     ds \in UNION {[1..k -> DigitGroups] : k \in 1..(MaxDots + 1)}}

Paths ==
  {Concat(ss) : ss \in UNION {[1..n -> Segs] : n \in 0..MaxSegs}}
    \cup ArgPaths
    \cup DotPaths
    \cup {PathReadme, PathTwoSubpaths, PathRelFirst, PathUnknown, PathDots,
          PathCloseRel, PathErrMid, PathExpNeg, PathExpUpper, PathExpPlus,
          PathCloseTwice, PathNoLetter, PathOnlyDots, PathJunkPrefix}

---------------------------------------------------------------------------
(* The state machine *)

VARIABLES
  p,          \* the Parser
  dc,         \* the calls made on the gg context since CompilePath was entered
  svgPath,    \* the argument of CompilePath
  i,          \* the index the loop of CompilePath continues from
  lastIndex,  \* lastIndex of CompilePath
  segString,  \* the argument of the latest addSeg call
  err,        \* the error CompilePath returns
  pc          \* "idle", "scan" (in the loop), "close" (after it), "done"

vars == <<p, dc, svgPath, i, lastIndex, segString, err, pc>>

Init ==
  /\ p = NewParser
  /\ dc = <<>>
  /\ svgPath = <<>>
  /\ i = 0
  /\ lastIndex = -1
  /\ segString = <<>>
  /\ err = "nil"
  /\ pc = "idle"

\* the caller sets the exported field ErrorMode between calls
SetErrorMode(mode) ==
  /\ pc = "idle"
  /\ mode # p.ErrorMode
  /\ p' = [p EXCEPT !.ErrorMode = mode]
  /\ UNCHANGED <<dc, svgPath, i, lastIndex, segString, err, pc>>

\* entry of CompilePath: p.init(); lastIndex := -1
CompilePath(path) ==
  /\ pc = "idle"
  /\ p' = init(p)
  /\ dc' = <<>>
  /\ svgPath' = path
  /\ i' = 0
  /\ lastIndex' = -1
  /\ segString' = <<>>
  /\ err' = "nil"
  /\ pc' = "scan"

\* the command letters of the loop: unicode.IsLetter(v) && v != 'e'
IsCommandLetter(v) == IsLetter(v) /\ v # "e"

\* the indices from i on at which the loop finds a command letter
LetterIndices ==
  {j \in i..(Len(svgPath) - 1) : IsCommandLetter(At(svgPath, j))}

\* CompilePath dropping the error of addSeg and going on with the loop (a
\* variant that C8 must tell apart)
AddSegReturn_Continue(seg, r, nextLast, nextI, nextPc) ==
  /\ segString' = seg
  /\ p' = r.p
  /\ dc' = dc \o r.calls
  /\ err' = r.err
  /\ pc' = nextPc
  /\ lastIndex' = nextLast
  /\ i' = nextI
  /\ UNCHANGED svgPath

\* CompilePath after r = p.addSeg(seg): return the error, or go on
AddSegReturn(seg, r, nextLast, nextI, nextPc) ==
  /\ segString' = seg
  /\ p' = r.p
  /\ dc' = dc \o r.calls
  /\ err' = r.err
  /\ IF r.err # "nil"
     THEN pc' = "done" /\ UNCHANGED <<i, lastIndex>>
     ELSE pc' = nextPc /\ lastIndex' = nextLast /\ i' = nextI
  /\ UNCHANGED svgPath

\* an addSeg call made by CompilePath
AddSegStep(seg, nextLast, nextI, nextPc) ==
  AddSegReturn(seg, addSeg(p, seg), nextLast, nextI, nextPc)

\* the loop handing the text before the first command letter to addSeg as a
\* segment of its own (a variant that C20 must tell apart)
ScanLetter_KeepsPrefix ==
  /\ pc = "scan"
  /\ LetterIndices # {}
  /\ LET j == CHOOSE m \in LetterIndices : \A n \in LetterIndices : m <= n
     IN  IF lastIndex # -1
         THEN AddSegStep(Slice(svgPath, lastIndex, j), j, j + 1, "scan")
         ELSE IF j > 0
         THEN AddSegStep(Slice(svgPath, 0, j), j, j + 1, "scan")
         ELSE /\ lastIndex' = j
              /\ i' = j + 1
              /\ UNCHANGED <<p, dc, svgPath, segString, err, pc>>

\* the loop runs up to the next command letter, at index j
ScanLetter ==
  /\ pc = "scan"
  /\ LetterIndices # {}
  /\ LET j == CHOOSE m \in LetterIndices : \A n \in LetterIndices : m <= n
     IN  IF lastIndex # -1
         THEN AddSegStep(Slice(svgPath, lastIndex, j), j, j + 1, "scan")
         ELSE /\ lastIndex' = j
              /\ i' = j + 1
              /\ UNCHANGED <<p, dc, svgPath, segString, err, pc>>

\* the loop runs to the end of the string; the last segment is added
ScanEnd ==
  /\ pc = "scan"
  /\ LetterIndices = {}
  /\ IF lastIndex # -1
     THEN AddSegStep(Slice(svgPath, lastIndex, Len(svgPath)),
                     lastIndex, Len(svgPath), "close")
     ELSE /\ pc' = "close"
          /\ i' = Len(svgPath)
          /\ UNCHANGED <<p, dc, svgPath, lastIndex, segString, err>>

\* Finish without the ClosePath call (a variant that C1 must tell apart)
Finish_NoClose ==
  /\ pc = "close"
  /\ dc' = dc
  /\ err' = "nil"
  /\ pc' = "done"
  /\ UNCHANGED <<p, svgPath, i, lastIndex, segString>>

\* p.dc.ClosePath(); return nil
Finish ==
  /\ pc = "close"
  /\ dc' = Append(dc, ClosePath)
  /\ err' = "nil"
  /\ pc' = "done"
  /\ UNCHANGED <<p, svgPath, i, lastIndex, segString>>

\* CompilePath has returned: its parameter and locals are gone, the caller
\* holds the Parser, the context and the error
Return ==
  /\ pc = "done"
  /\ pc' = "idle"
  /\ svgPath' = <<>>
  /\ i' = 0
  /\ lastIndex' = -1
  /\ segString' = <<>>
  /\ UNCHANGED <<p, dc, err>>

Next ==
  \/ \E mode \in ErrorModes : SetErrorMode(mode)
  \/ \E path \in Paths : CompilePath(path)
  \/ ScanLetter
  \/ ScanEnd
  \/ Finish
  \/ Return

Spec == Init /\ [][Next]_vars

---------------------------------------------------------------------------
(* CompilePath as a function of the Parser it is called on: the calls it
   makes on the gg context and the error it returns *)

RECURSIVE RunLoop(_, _, _, _, _)

\* after r = p.addSeg(seg) in the loop, at the command letter of index j
RunNext(r, calls, path, j) ==
  IF r.err # "nil" THEN [calls |-> calls \o r.calls, err |-> r.err]
  ELSE RunLoop(r.p, calls \o r.calls, path, j + 1, j)

\* after r = p.addSeg(seg) for the last segment: p.dc.ClosePath()
RunEnd(r, calls) ==
  IF r.err # "nil" THEN [calls |-> calls \o r.calls, err |-> r.err]
  ELSE [calls |-> Append(calls \o r.calls, ClosePath), err |-> "nil"]

\* the loop of CompilePath from index j on, and the statements after it
RunLoop(q, calls, path, j, last) ==
  IF j >= Len(path)
  THEN IF last # -1
       THEN RunEnd(addSeg(q, Slice(path, last, Len(path))), calls)
       ELSE [calls |-> Append(calls, ClosePath), err |-> "nil"]
  ELSE IF IsCommandLetter(At(path, j))
  THEN IF last # -1
       THEN RunNext(addSeg(q, Slice(path, last, j)), calls, path, j)
       ELSE RunLoop(q, calls, path, j + 1, j)
  ELSE RunLoop(q, calls, path, j + 1, last)

\* NewParser(dc), p.ErrorMode = mode, p.CompilePath(path)
RunFresh(path, mode) ==
  RunLoop(init([NewParser EXCEPT !.ErrorMode = mode]), <<>>, path, 0, -1)

---------------------------------------------------------------------------
(* Properties *)

\* a step taken from such a state is an addSeg call of CompilePath
AddSegCalled == pc = "scan" /\ lastIndex # -1

\* the state right after an addSeg call that returned nil
AddSegReturned == pc \in {"scan", "close"} /\ segString # <<>>

\* the key of the latest addSeg call (in the state after it)
Key == At(segString, 0)

\* the calls MoveTo(x1,y1), LineTo(x2,y2), ..., LineTo(xn,yn) for the pairs
\* of pts
MoveLineCalls(pts) ==
  [j \in 1..(Len(pts) \div 2) |->
     IF j = 1 THEN MoveTo(pts[1], pts[2])
     ELSE LineTo(pts[2 * j - 1], pts[2 * j])]

\* C1: CompilePath("M75 0, 0 200, 150 200 Z") returns no error, the context
\* receives exactly MoveTo(75,0), LineTo(0,200), LineTo(150,200), ClosePath()
\* in that order, and the cursor (placeX, placeY) ends at (75,0).
C1_Readme ==
  (pc = "done" /\ svgPath = PathReadme) =>
    /\ err = "nil"
    /\ dc = <<MoveTo(D(75), D(0)), LineTo(D(0), D(200)),
              LineTo(D(150), D(200)), ClosePath>>
    /\ p.placeX = D(75)
    /\ p.placeY = D(0)

C1_Witness == pc = "done" /\ svgPath = PathReadme /\ Len(dc) = 4

\* C2: an absolute MoveTo 'M' with n >= 1 pairs makes exactly n calls, in
\* argument order: MoveTo(x1,y1), then LineTo(xi,yi) for i = 2..n; afterwards
\* path-start is (x1,y1), the cursor is (xn,yn) and inPath is set.
C2_MoveAbs ==
  [][(AddSegCalled /\ At(segString', 0) = "M" /\ err' = "nil") =>
       /\ Len(p'.points) >= 2
       /\ Len(p'.points) % 2 = 0
       /\ segString' = SegMAbs => p'.points = <<D(3), D(4), D(5), D(6)>>
       /\ dc' = dc \o MoveLineCalls(p'.points)
       /\ p'.pathStartX = p'.points[1]
       /\ p'.pathStartY = p'.points[2]
       /\ p'.placeX = p'.points[Len(p'.points) - 1]
       /\ p'.placeY = p'.points[Len(p'.points)]
       /\ p'.inPath]_vars

\* the MoveTo of the README path (three pairs) has just been processed
C2_Witness ==
  /\ AddSegReturned
  /\ Key = "M"
  /\ Len(p.points) = 6
  /\ dc = <<MoveTo(D(75), D(0)), LineTo(D(0), D(200)), LineTo(D(150), D(200))>>

\* C3: a ClosePath command (Z or z) processed while a subpath is open emits a
\* close primitive at that point of the call sequence and clears inPath.
C3_CloseEmits ==
  [][(AddSegCalled /\ At(segString', 0) \in {"z", "Z"} /\ err' = "nil"
        /\ p.inPath) =>
       (dc' = Append(dc, ClosePath) /\ ~p'.inPath)]_vars

\* what an addSeg step does to the cursor: after m/M, after a Z that follows
\* m/M, and for the relative MoveTo "m1 2-1.5.5"
C4_Step ==
  /\ (AddSegCalled /\ At(segString', 0) \in {"m", "M"} /\ err' = "nil") =>
       /\ p'.placeX = p'.points[Len(p'.points) - 1]
       /\ p'.placeY = p'.points[Len(p'.points)]
  /\ (AddSegCalled /\ At(segString', 0) \in {"z", "Z"} /\ err' = "nil"
        /\ p.lastKey \in {"m", "M"}) =>
       /\ p'.placeX = p.points[1]
       /\ p'.placeY = p.points[2]
  /\ (AddSegCalled /\ segString' = SegMRel /\ err' = "nil") =>
       dc' = dc \o <<MoveTo(Add(p.placeX, D(1)), Add(p.placeY, D(2))),
                     LineTo(Add(p.placeX, Norm(-5, -1)),
                            Add(p.placeY, Norm(25, -1)))>>

\* C4: after a MoveTo (absolute or relative) the cursor is the last resolved
\* pair; a ClosePath processed next resets the cursor to the first resolved
\* pair of that MoveTo (the path-start), and a relative command that follows
\* is resolved against the path-start.
C4_CursorAfterClose ==
  /\ [][C4_Step]_vars
  /\ [](pc = "done" /\ svgPath = PathCloseRel =>
          dc = <<MoveTo(D(3), D(4)), LineTo(D(5), D(6)),
                 MoveTo(D(4), D(6)), LineTo(Norm(25, -1), Norm(65, -1)),
                 ClosePath>>)

\* "M3 4 5 6Zm1 2-1.5.5" has been processed: the m came after the Z
C4_Witness ==
  /\ pc = "close"
  /\ svgPath = PathCloseRel
  /\ p.placeX = Norm(25, -1)
  /\ p.placeY = Norm(65, -1)

\* the absolute pairs of the offsets d taken from the cursor (cx, cy): each
\* pair is relative to the pair before it
RECURSIVE RunningSums(_, _, _)
RunningSums(d, cx, cy) ==
  IF Len(d) < 2 THEN <<>>
  ELSE <<Add(cx, d[1]), Add(cy, d[2])>>
         \o RunningSums(SubSeq(d, 3, Len(d)), Add(cx, d[1]), Add(cy, d[2]))

\* the argument text of a segment
ArgText(seg) == Slice(seg, 1, Len(seg))

\* what an addSeg step of a relative MoveTo does
C5_Step ==
  (AddSegCalled /\ At(segString', 0) = "m" /\ err' = "nil") =>
    /\ p'.points = RunningSums(GetPoints(ArgText(segString')).points,
                               p.placeX, p.placeY)
    /\ dc' = dc \o MoveLineCalls(p'.points)

\* C5: a relative MoveTo 'm' with offsets d1..dn processed at cursor c emits
\* the points c+d1, c+d1+d2, ..., c+d1+...+dn; as first command of a path
\* string the cursor is the origin, so CompilePath("m10 10") emits
\* MoveTo(10,10).
C5_MoveRel ==
  /\ [][C5_Step]_vars
  /\ [](pc = "scan" /\ p.lastKey = " " => p.placeX = D(0) /\ p.placeY = D(0))
  /\ [](pc = "done" /\ svgPath = PathRelFirst =>
          err = "nil" /\ dc = <<MoveTo(D(10), D(10)), ClosePath>>)

\* "M3 4 5 6m1 2-1.5.5": the m was processed at cursor (5,6)
C5_Witness ==
  /\ pc = "close"
  /\ svgPath = SegMAbs \o SegMRel
  /\ dc = <<MoveTo(D(3), D(4)), LineTo(D(5), D(6)),
            MoveTo(D(6), D(8)), LineTo(Norm(45, -1), Norm(85, -1))>>

\* the group size of a recognized command other than ClosePath
GroupSize(k) ==
  IF k \in {"H", "h", "V", "v"} THEN 1
  ELSE IF k \in {"M", "m", "L", "l", "T", "t"} THEN 2
  ELSE IF k \in {"S", "s", "Q", "q"} THEN 4
  ELSE IF k \in {"C", "c"} THEN 6
  ELSE 7

\* n numeric arguments are a wrong count for the recognized command k
BadCount(k, n) ==
  IF k \in {"z", "Z"} THEN n # 0
  ELSE n = 0 \/ n % GroupSize(k) # 0

\* the segment is a recognized command whose argument text tokenizes (gp) to
\* a wrong number of arguments
BadArityOf(k, gp) ==
  k \in CommandKeys /\ gp.err = "nil" /\ BadCount(k, Len(gp.points))

BadArity(seg) == BadArityOf(At(seg, 0), GetPoints(ArgText(seg)))

\* the segment is a recognized command with a valid number of arguments
ValidArityOf(k, gp) ==
  k \in CommandKeys /\ gp.err = "nil" /\ ~BadCount(k, Len(gp.points))

ValidArity(seg) == ValidArityOf(At(seg, 0), GetPoints(ArgText(seg)))

\* C6: for every recognized command letter, a number of arguments that is
\* zero or not a multiple of the group size (for Z/z: any argument) makes
\* CompilePath return ParamMismatch.
C6_ParamMismatch ==
  (pc = "done" /\ segString # <<>> /\ BadArity(segString)) =>
    err = "errParamMismatch"

\* what an addSeg step of an unrecognized letter does
C7_Step ==
  (AddSegCalled /\ At(segString', 0) \notin CommandKeys
     /\ GetPoints(ArgText(segString')).err = "nil") =>
    IF p.ErrorMode = StrictErrorMode
    THEN err' = "errCommandUnknown" /\ pc' = "done" /\ dc' = dc
    ELSE /\ err' = "nil"
         /\ pc' \in {"scan", "close"}
         /\ dc' = dc
         /\ p'.placeX = p.placeX /\ p'.placeY = p.placeY
         /\ p'.pathStartX = p.pathStartX /\ p'.pathStartY = p.pathStartY
         /\ p'.inPath = p.inPath

\* C7: an unrecognized command letter followed by well-formed numeric text is
\* skipped under Ignore and Warn (no primitive, cursor, path-start and inPath
\* unchanged, no error, processing continues) and makes CompilePath return
\* UnknownCommand under Strict.
C7_Unknown ==
  /\ [][C7_Step]_vars
  /\ [](pc = "done" /\ svgPath = PathUnknown =>
          IF p.ErrorMode = StrictErrorMode
          THEN err = "errCommandUnknown" /\ dc = <<MoveTo(D(1), D(2))>>
          ELSE err = "nil" /\ dc = <<MoveTo(D(1), D(2)), ClosePath>>)

\* "X5 5M3 4 5 6" under Warn: the X was skipped and the M processed
C7_Witness ==
  /\ pc = "done"
  /\ svgPath = SegX \o SegMAbs
  /\ p.ErrorMode = WarnErrorMode
  /\ err = "nil"
  /\ dc = <<MoveTo(D(3), D(4)), LineTo(D(5), D(6)), ClosePath>>

\* the number of calls of the given method in a call sequence
RECURSIVE NumCalls(_, _)
NumCalls(calls, name) ==
  IF calls = <<>> THEN 0
  ELSE (IF Head(calls)[1] = name THEN 1 ELSE 0) + NumCalls(Tail(calls), name)

\* the number of indices below n at which s holds one of the keys
RECURSIVE CountKeys(_, _, _)
CountKeys(s, n, keys) ==
  IF n = 0 THEN 0
  ELSE (IF At(s, n - 1) \in keys THEN 1 ELSE 0) + CountKeys(s, n - 1, keys)

\* the last command letter of s below index n, or ' ' (the lastKey of init)
RECURSIVE PrevKey(_, _)
PrevKey(s, n) ==
  IF n = 0 THEN " "
  ELSE IF IsCommandLetter(At(s, n - 1)) THEN At(s, n - 1)
  ELSE PrevKey(s, n - 1)

\* a step that raises an error, and the step after the return
C8_Step ==
  /\ (pc = "scan" /\ err' # "nil") => (dc' = dc /\ pc' = "done")
  /\ pc = "done" => (pc' = "idle" /\ p' = p /\ dc' = dc /\ err' = err)

\* C8: when CompilePath returns an error raised by the k-th command, the
\* context has received the primitives of commands 1..k-1 (not rolled back),
\* none of command k or of a later command, and no command after k is
\* processed.
C8_ErrorAborts ==
  /\ [][C8_Step]_vars
  /\ [](pc = "done" /\ err # "nil" =>
          /\ lastIndex # -1
          /\ segString = SubSeq(svgPath, lastIndex + 1,
                                lastIndex + Len(segString))
          /\ NumCalls(dc, "MoveTo")
               = CountKeys(svgPath, lastIndex, {"m", "M"})
          /\ NumCalls(dc, "ClosePath") = 0
          /\ p.lastKey = PrevKey(svgPath, lastIndex))

\* "M3 4 5 6M1 2 3m1 2-1.5.5": the second command failed, a third follows
C8_Witness ==
  /\ pc = "done"
  /\ svgPath = PathErrMid
  /\ err = "errParamMismatch"
  /\ dc = <<MoveTo(D(3), D(4)), LineTo(D(5), D(6))>>

\* C9: every valid path element is interpreted: a recognized command with a
\* valid number of arguments returns no error (and L/l leaves the cursor at
\* its last pair).
C9_AllInterpreted ==
  (pc \in {"scan", "close", "done"} /\ segString # <<>>
     /\ ValidArity(segString)) =>
    /\ err = "nil"
    /\ Key \in {"L", "l"} =>
         /\ p.placeX = p.points[Len(p.points) - 1]
         /\ p.placeY = p.points[Len(p.points)]

\* the text is d0.d1.d2...dk: digit groups, none empty, joined by k >= 1
\* decimal points
IsDotRun(text) ==
  /\ Len(text) >= 3
  /\ \A j \in 1..Len(text) : text[j] \in Digits \cup {"."}
  /\ text[1] # "." /\ text[Len(text)] # "."
  /\ \A j \in 1..(Len(text) - 1) : ~(text[j] = "." /\ text[j + 1] = ".")
  /\ \E j \in 1..Len(text) : text[j] = "."

\* the digit groups of a dot run, in order
RECURSIVE DotGroups(_, _)
DotGroups(text, group) ==
  IF text = <<>> THEN <<group>>
  ELSE IF Head(text) = "." THEN <<group>> \o DotGroups(Tail(text), <<>>)
  ELSE DotGroups(Tail(text), Append(group, Head(text)))

\* the integer written by a digit group
RECURSIVE IntOf(_)
IntOf(g) ==
  IF g = <<>> THEN 0
  ELSE 10 * IntOf(SubSeq(g, 1, Len(g) - 1)) + DigitVal(g[Len(g)])

\* the values d0.d1, .d2, ..., .dk of the digit groups gs = d0, d1, ..., dk
DotValues(gs) ==
  [j \in 1..(Len(gs) - 1) |->
     IF j = 1 THEN Norm(IntOf(gs[1] \o gs[2]), 0 - Len(gs[2]))
     ELSE Norm(IntOf(gs[j + 1]), 0 - Len(gs[j + 1]))]

\* C10: the tokenizer splits a digit run with several decimal points at every
\* decimal point after the first: d0.d1.d2...dk yields the k values d0.d1,
\* .d2, ..., .dk in order; "1.5.5" yields [1.5, 0.5].
C10_DotRuns ==
  (pc \in {"scan", "close", "done"} /\ segString # <<>> /\ Key = "M") =>
    /\ IsDotRun(ArgText(segString)) =>
         p.points = DotValues(DotGroups(ArgText(segString), <<>>))
    /\ ArgText(segString) = <<"1", ".", "5", ".", "5">> =>
         p.points = <<Norm(15, -1), Norm(5, -1)>>

\* "M20.25.5.25.5" has been tokenized: four values from one digit run
C10_Witness ==
  /\ pc = "close"
  /\ segString = <<"M", "2", "0", ".", "2", "5", ".", "5", ".", "2", "5",
                   ".", "5">>
  /\ p.points = <<Norm(2025, -2), Norm(5, -1), Norm(25, -2), Norm(5, -1)>>

---------------------------------------------------------------------------

\* C11: a number with a lowercase exponent and a minus sign is one value:
\* for "M1e-5 2" the loop of CompilePath never starts a segment at the 'e',
\* the whole string is the one segment handed to addSeg, GetPoints reads
\* exactly the two values 1e-5 and 2 from it, and the call succeeds with one
\* MoveTo(1e-5, 2); GetPoints of "1e-5" alone is the single value 1e-5
C11_ExpNeg ==
  /\ GetPoints(<<"1", "e", "-", "5">>) =
       [points |-> <<Norm(1, -5)>>, err |-> "nil"]
  /\ pc = "scan" /\ lastIndex # -1 => At(svgPath, lastIndex) # "e"
  /\ svgPath = PathExpNeg /\ pc = "scan" => lastIndex \in {-1, 0}
  /\ svgPath = PathExpNeg /\ pc \in {"close", "done"} =>
       /\ segString = PathExpNeg
       /\ p.points = <<Norm(1, -5), D(2)>>
       /\ err = "nil"
       /\ dc[1] = MoveTo(Norm(1, -5), D(2))
       /\ NumCalls(dc, "MoveTo") + NumCalls(dc, "LineTo") = 1

C11_Witness ==
  /\ pc = "close"
  /\ svgPath = PathExpNeg
  /\ segString = PathExpNeg
  /\ dc = <<MoveTo(Norm(1, -5), D(2))>>

---------------------------------------------------------------------------

\* C12: 'E' and a '+' after the exponent marker belong to the number as 'e'
\* and '-' do: "M1E2 3" and "M1e+2 3" are each one segment, read as the two
\* values 100 and 3, and each yields one MoveTo(100, 3) and no error
C12_ExpUpperPlus ==
  svgPath \in {PathExpUpper, PathExpPlus} /\ pc \in {"close", "done"} =>
    /\ segString = svgPath
    /\ p.points = <<D(100), D(3)>>
    /\ err = "nil"
    /\ dc[1] = MoveTo(D(100), D(3))
    /\ NumCalls(dc, "MoveTo") + NumCalls(dc, "LineTo") = 1

---------------------------------------------------------------------------

\* CompilePath has just been entered: p.init() has run, the loop has not
\* started
Entered == pc = "scan" /\ i = 0

\* C13: at the start of every CompilePath call every field of the parser
\* state has its default: cursor, path-start and last-control point (0,0),
\* no last command, empty numeric buffer, no open subpath
C13_ResetAtEntry ==
  Entered =>
    /\ p.placeX = D(0) /\ p.placeY = D(0)
    /\ p.pathStartX = D(0) /\ p.pathStartY = D(0)
    /\ p.cntlPtX = D(0) /\ p.cntlPtY = D(0)
    /\ p.lastKey = " "
    /\ p.points = <<>>
    /\ ~p.inPath

---------------------------------------------------------------------------

\* the point a call on the gg context ends at
EndX(call) == IF call = ClosePath THEN p.pathStartX ELSE call[2]
EndY(call) == IF call = ClosePath THEN p.pathStartY ELSE call[3]

\* C14: between the commands of a run, once a primitive has been emitted, the
\* cursor is the endpoint of the last primitive emitted (the path-start for a
\* close primitive)
C14_CursorAtLastPrimitive ==
  pc \in {"scan", "close"} /\ dc # <<>> =>
    /\ p.placeX = EndX(dc[Len(dc)])
    /\ p.placeY = EndY(dc[Len(dc)])

---------------------------------------------------------------------------

\* the first control point of a smooth cubic curve drawn from the parser
\* state q: the cursor reflected about the last control point after a
\* command of the cubic family, the cursor itself otherwise
SmoothCtlX(q) ==
  IF q.lastKey \in {"C", "c", "S", "s"}
  THEN Sub(Add(q.placeX, q.placeX), q.cntlPtX)
  ELSE q.placeX
SmoothCtlY(q) ==
  IF q.lastKey \in {"C", "c", "S", "s"}
  THEN Sub(Add(q.placeY, q.placeY), q.cntlPtY)
  ELSE q.placeY

\* C15: an S/s command with a valid number of arguments emits a cubic
\* primitive whose first control point is 2*cursor - previous control point
\* when the preceding command was C, c, S or s, and the cursor otherwise
C15_SmoothCubic ==
  [][(AddSegCalled /\ At(segString', 0) \in {"s", "S"}
        /\ ValidArity(segString')) =>
       /\ err' = "nil"
       /\ Len(dc') > Len(dc)
       /\ dc'[Len(dc) + 1][1] = "CubicTo"
       /\ dc'[Len(dc) + 1][2] = SmoothCtlX(p)
       /\ dc'[Len(dc) + 1][3] = SmoothCtlY(p)]_vars

---------------------------------------------------------------------------

\* C16: calls on the same Parser are independent: whatever calls came before
\* (complete or ended by an error), the calls CompilePath makes on the
\* context and the error it returns are those of the same call on a freshly
\* constructed Parser with the same ErrorMode
C16_Independent ==
  pc = "done" => [calls |-> dc, err |-> err] = RunFresh(svgPath, p.ErrorMode)

\* "Z" has run on a Parser whose earlier call left the path-start at (3,4)
C16_Witness ==
  /\ pc = "done"
  /\ svgPath = <<"Z">>
  /\ p.pathStartX = D(3) /\ p.pathStartY = D(4)
  /\ err = "nil"
  /\ dc = <<ClosePath>>

---------------------------------------------------------------------------

\* the recognized commands other than MoveTo and ClosePath
UnimplementedKeys == CommandKeys \ {"M", "m", "Z", "z"}

\* an addSeg call for such a command with well-formed numeric text
C17_Step ==
  (AddSegCalled /\ At(segString', 0) \in UnimplementedKeys
     /\ GetPoints(ArgText(segString')).err = "nil") =>
    /\ err' = "errNotImplemented"
    /\ pc' = "done"
    /\ dc' = dc
    /\ p'.placeX = p.placeX /\ p'.placeY = p.placeY
    /\ p'.pathStartX = p.pathStartX /\ p'.pathStartY = p.pathStartY
    /\ p'.inPath = p.inPath
    /\ p'.lastKey = p.lastKey

---------------------------------------------------------------------------

\* the index up to which the commands of svgPath have been processed without
\* error
ProcessedTo ==
  IF pc = "close" \/ (pc = "done" /\ err = "nil") THEN Len(svgPath)
  ELSE IF lastIndex = -1 THEN 0
  ELSE lastIndex

\* the last of the given keys in s below index n, or ' '
RECURSIVE LastKeyOf(_, _, _)
LastKeyOf(s, n, keys) ==
  IF n = 0 THEN " "
  ELSE IF At(s, n - 1) \in keys THEN At(s, n - 1)
  ELSE LastKeyOf(s, n - 1, keys)

\* an addSeg call for a Z/z without arguments while no subpath is open
C18_Step ==
  (AddSegCalled /\ At(segString', 0) \in {"z", "Z"}
     /\ GetPoints(ArgText(segString')) = [points |-> <<>>, err |-> "nil"]
     /\ ~p.inPath) =>
    /\ err' = "nil"
    /\ dc' = dc
    /\ p'.placeX = p.placeX /\ p'.placeY = p.placeY
    /\ p'.pathStartX = p.pathStartX /\ p'.pathStartY = p.pathStartY
    /\ p'.inPath = p.inPath
    /\ p'.lastKey = At(segString', 0)
    /\ p.lastKey \in {" ", "z", "Z"} =>
         p' = [p EXCEPT !.lastKey = At(segString', 0)]

\* C18: a ClosePath command without arguments processed while no subpath is
\* open returns no error, emits nothing and leaves cursor, path-start and
\* inPath as they were; as the first command or directly after another
\* ClosePath only lastKey changes. During a call inPath is set exactly when
\* the last command among M, m, Z, z processed without error is a MoveTo
C18_CloseNoSubpath ==
  /\ [][C18_Step]_vars
  /\ [](pc \in {"scan", "close", "done"} =>
          (p.inPath <=>
             LastKeyOf(svgPath, ProcessedTo, {"M", "m", "Z", "z"})
               \in {"M", "m"}))

\* "M3 4 5 6ZZ": the second Z found no open subpath
C18_Witness ==
  /\ pc = "close"
  /\ svgPath = PathCloseTwice
  /\ segString = SegZ
  /\ p.lastKey = "Z"
  /\ ~p.inPath
  /\ p.placeX = D(3) /\ p.placeY = D(4)
  /\ dc = <<MoveTo(D(3), D(4)), LineTo(D(5), D(6))>>

---------------------------------------------------------------------------

---------------------------------------------------------------------------

\* s holds no command letter (a letter other than 'e') at the indices a..b-1
NoCommand(s, a, b) ==
  \A j \in a..(b - 1) : ~(IsLetter(At(s, j)) /\ At(s, j) # "e")

\* a step of the loop: before the first command letter nothing is handed to
\* addSeg; from then on every segment starts where the one before ended, at
\* a command letter, and runs up to the next command letter or the end
C20_Step ==
  /\ (pc = "scan" /\ lastIndex = -1) =>
       /\ p' = p /\ dc' = dc /\ err' = "nil" /\ segString' = <<>>
       /\ pc' = "close" => NoCommand(svgPath, 0, Len(svgPath))
       /\ pc' = "scan" =>
            /\ lastIndex' \in 0..(Len(svgPath) - 1)
            /\ NoCommand(svgPath, 0, lastIndex')
            /\ ~NoCommand(svgPath, lastIndex', lastIndex' + 1)
  /\ AddSegCalled =>
       /\ Len(segString') >= 1
       /\ segString' = Slice(svgPath, lastIndex, lastIndex + Len(segString'))
       /\ ~NoCommand(svgPath, lastIndex, lastIndex + 1)
       /\ NoCommand(svgPath, lastIndex + 1, lastIndex + Len(segString'))
       /\ \/ lastIndex + Len(segString') = Len(svgPath)
          \/ ~NoCommand(svgPath, lastIndex + Len(segString'),
                        lastIndex + Len(segString') + 1)
       /\ pc' = "scan" => lastIndex' = lastIndex + Len(segString')
       /\ pc' = "close" => lastIndex + Len(segString') = Len(svgPath)

\* C20: the segments handed to addSeg, in order, make up the path string
\* from its first command letter (a letter other than 'e') on; the text
\* before it is dropped without being read and without error, so a path
\* string without a command letter ("10 20", "..") returns no error and
\* emits neither MoveTo nor LineTo
C20_Segments ==
  /\ [][C20_Step]_vars
  /\ [](pc = "done" /\ NoCommand(svgPath, 0, Len(svgPath)) =>
          /\ err = "nil"
          /\ dc = <<ClosePath>>
          /\ segString = <<>>
          /\ p.points = <<>>)
  /\ [](pc = "done" /\ svgPath = PathJunkPrefix =>
          /\ err = "nil"
          /\ dc = <<MoveTo(D(3), D(4)), LineTo(D(5), D(6)), ClosePath>>)

\* "10 20M3 4 5 6Z": the text "10 20" was dropped, "M3 4 5 6" and "Z" were
\* processed
C20_Witness ==
  /\ pc = "close"
  /\ svgPath = PathJunkPrefix
  /\ segString = SegZ
  /\ lastIndex = Len(PathNoLetter \o SegMAbs)
  /\ dc = <<MoveTo(D(3), D(4)), LineTo(D(5), D(6))>>

===========================================================================
